---- MODULE Spec2Model ----
(***************************************************************************)
(* WebAuthn relying party of learn-passkeys: the four HTTP handlers        *)
(* BeginRegistration, FinishRegistration, BeginLogin and FinishLogin over  *)
(* the PostgreSQL tables users, credentials and challenges.                *)
(*                                                                         *)
(* Every handler is a sequence of SQL statements; each statement is one    *)
(* atomic step, so that requests served by different goroutines interleave *)
(* between statements.  The calls into go-webauthn (BeginRegistration,     *)
(* CreateCredential, BeginLogin, ValidateLogin) touch no shared state and  *)
(* are folded into the SQL step that precedes or follows them.             *)
(***************************************************************************)
EXTENDS Integers, Sequences, FiniteSets, TLC

(* ---------------------------- bounds ----------------------------------- *)

\* number of random challenges the library draws in one behaviour
MaxChallenges == 3
\* the same when the statements of two requests interleave
MaxRaceChallenges == 2
\* largest signature counter an authenticator presents
MaxCount == 1

\* the goroutines of net/http that serve requests at the same time
Procs == {"g1", "g2"}
Usernames == {"alice", "bob"}
CredIds == {"c1", "c2"}
Keys == {"k1", "k2"}
\* the flag pairs an authenticator reports (a key that is not eligible for
\* backup is never reported as backed up)
Flags == {<<FALSE, FALSE>>, <<TRUE, FALSE>>, <<TRUE, TRUE>>}
Origins == {"http://localhost:5173", "https://evil.example"}
ChallengeValues == 1 .. MaxChallenges
Counters == 0 .. MaxCount

(* ------------------------- configuration ------------------------------- *)

\* webauthn.Config of main: RPID and RPOrigins defaults; Timeouts is left at
\* its zero value, so the library does not enforce (or set) session expiry.
RPID == "localhost"
RPOrigins == {"http://localhost:5173"}

\* time.Time{} and uuid.Nil, the Go zero values
ZeroTime == 0
NilUUID == 0
NoChallenge == 0

(* ---------------------------- values ----------------------------------- *)

\* models.User as scanned from a users row
NoUser == [ID |-> NilUUID, Username |-> ""]

\* webauthn.SessionData, zero value
ZeroSession ==
  [Challenge |-> NoChallenge, RelyingPartyID |-> "", UserID |-> NilUUID,
   AllowedCredentialIDs |-> {}, Expires |-> ZeroTime,
   UserVerification |-> "", CredParams |-> <<>>]

\* the public-key algorithms the library offers (ES256, RS256)
DefaultCredParams == <<-7, -257>>

\* webauthn.Credential, zero value
NoCredential ==
  [ID |-> "", PublicKey |-> "", SignCount |-> 0, CloneWarning |-> FALSE,
   BackupEligible |-> FALSE, BackupState |-> FALSE,
   AttestationType |-> "", AAGUID |-> 0]

\* the parsed body of a request, whatever the endpoint
NoRequest ==
  [username |-> "", challenge |-> NoChallenge, origin |-> "", credId |-> "",
   pubKey |-> "", counter |-> 0, be |-> FALSE, bs |-> FALSE]

\* what the handler wrote to the http.ResponseWriter
NoResponse ==
  [status |-> 0, msg |-> "", user |-> "", challenge |-> NoChallenge,
   allow |-> {}]

\* observations of the database taken at the statement that read it
NoObs ==
  [replay |-> FALSE, hadRecord |-> FALSE, expired |-> FALSE,
   found |-> FALSE, owner |-> NilUUID, count |-> 0,
   be |-> FALSE, bs |-> FALSE]

IdleProc ==
  [pc |-> "idle", op |-> "none", req |-> NoRequest, user |-> NoUser,
   session |-> ZeroSession, cred |-> NoCredential, obs |-> NoObs,
   resp |-> NoResponse]

VARIABLES
  users,        \* table users: rows [id, username]
  credentials,  \* table credentials
  challenges,   \* table challenges
  issued,       \* challenge value -> SessionData the library produced at Begin
  finished,     \* challenge value -> what Finish calls did with it so far
  procs         \* the requests in flight

vars == <<users, credentials, challenges, issued, finished, procs>>

\* CURRENT_TIMESTAMP and time.Now(): the clock advances between two
\* statements that store a challenge, so no two rows share a created_at
now == Len(issued) + 1

(* ------------------------ encoding/json -------------------------------- *)

\* json.Marshal(sessionData): the fields in declaration order, the
\* omitempty ones (allowed_credentials, credParams) left out when empty
Marshal(s) ==
  <<  <<"challenge", s.Challenge>>, <<"rpId", s.RelyingPartyID>>,
      <<"user_id", s.UserID>> >>
  \o (IF s.AllowedCredentialIDs = {} THEN <<>>
      ELSE << <<"allowed_credentials", s.AllowedCredentialIDs>> >>)
  \o << <<"expires", s.Expires>>,
        <<"userVerification", s.UserVerification>> >>
  \o (IF s.CredParams = <<>> THEN <<>>
      ELSE << <<"credParams", s.CredParams>> >>)

\* the value of key k in the JSON object j, or the Go zero value d
JsonField(j, k, d) ==
  IF \E i \in 1 .. Len(j) : j[i][1] = k
  THEN j[CHOOSE i \in 1 .. Len(j) : j[i][1] = k][2]
  ELSE d

\* json.Unmarshal(sessionDataJSON, &sessionData)
Unmarshal(j) ==
  [Challenge |-> JsonField(j, "challenge", NoChallenge),
   RelyingPartyID |-> JsonField(j, "rpId", ""),
   UserID |-> JsonField(j, "user_id", NilUUID),
   AllowedCredentialIDs |-> JsonField(j, "allowed_credentials", {}),
   Expires |-> JsonField(j, "expires", ZeroTime),
   UserVerification |-> JsonField(j, "userVerification", ""),
   CredParams |-> JsonField(j, "credParams", <<>>)]

\* the bytes pq writes into the BYTEA column for a challenge string
RawBytes(c) == <<c>>

(* --------------------------- SQL helpers ------------------------------- *)

\* SELECT ... FROM users WHERE username = $1
UsersByName(name) == {u \in users : u.username = name}

\* SELECT ... FROM users WHERE id = $1
UsersById(id) == {u \in users : u.id = id}

\* gen_random_uuid(): an id no row has
NewUUID == Cardinality(users) + 1

\* the same SELECT without its WHERE clause: every row
CredentialsOfAnyone(uid) == credentials

\* SELECT id, public_key, sign_count FROM credentials WHERE user_id = $1
CredentialsOf(uid) == {c \in credentials : c.user_id = uid}

\* rows of challenges with the given type
ChallengesOfType(t) == {ch \in challenges : ch.type = t}

\* SELECT user_id, challenge FROM challenges WHERE type = $1
\*   ORDER BY created_at DESC LIMIT 1: any row with the latest created_at
LatestOfType(t) ==
  {ch \in ChallengesOfType(t) :
     \A o \in ChallengesOfType(t) : o.created_at <= ch.created_at}

\* SELECT user_id FROM challenges WHERE challenge = $1 AND type = $2
ChallengeRows(key, t) == {ch \in ChallengesOfType(t) : ch.challenge = key}

\* user_id REFERENCES users(id): an INSERT for a user whose row is gone fails
UserGone(uid) == UsersById(uid) = {}

\* a challenges table without the primary key
ChallengeKeyNeverTaken(key) == FALSE

\* the primary key of challenges is the challenge column
ChallengeKeyTaken(key) == \E ch \in challenges : ch.challenge = key

(* ------------------------- go-webauthn --------------------------------- *)

\* the Expires the library puts in SessionData at Begin: Config.Timeouts is
\* not set, so no deadline is attached and Expires stays time.Time{}
SessionExpires == ZeroTime

\* a 32-byte random challenge: a value never drawn before
FreshChallenge == Len(issued) + 1

\* webauthn.BeginRegistration: the SessionData for user u
LibBeginRegistration(u) ==
  [Challenge |-> FreshChallenge, RelyingPartyID |-> RPID, UserID |-> u.ID,
   AllowedCredentialIDs |-> {}, Expires |-> SessionExpires,
   UserVerification |-> "preferred", CredParams |-> DefaultCredParams]

\* webauthn.BeginLogin: the SessionData for user u holding credentials cs
LibBeginLogin(u, cs) ==
  [Challenge |-> FreshChallenge, RelyingPartyID |-> RPID, UserID |-> u.ID,
   AllowedCredentialIDs |-> {c.ID : c \in cs}, Expires |-> SessionExpires,
   UserVerification |-> "preferred", CredParams |-> <<>>]

\* the session checks shared by CreateCredential and ValidateLogin
SessionError(u, s) ==
  IF u.ID # s.UserID THEN "ID mismatch for User and Session"
  ELSE IF s.Expires # ZeroTime /\ s.Expires < now THEN "Session has Expired"
  ELSE ""

\* CollectedClientData.Verify with the origin left unchecked
ClientDataErrorAnyOrigin(s, r) ==
  IF r.challenge # s.Challenge THEN "Error validating challenge" ELSE ""

\* CollectedClientData.Verify: challenge and origin
ClientDataError(s, r) ==
  IF r.challenge # s.Challenge THEN "Error validating challenge"
  ELSE IF r.origin \notin RPOrigins THEN "Error validating origin"
  ELSE ""

\* the attestation checks of webauthn.CreateCredential; "" when they pass
LibCreateError(u, s, r) ==
  IF SessionError(u, s) # "" THEN SessionError(u, s)
  ELSE ClientDataError(s, r)

\* a CreateCredential that starts every credential at counter 0
LibCreateCredentialZeroCount(r) ==
  [ID |-> r.credId, PublicKey |-> r.pubKey, SignCount |-> 0,
   CloneWarning |-> FALSE, BackupEligible |-> r.be, BackupState |-> r.bs,
   AttestationType |-> "none", AAGUID |-> 1]

\* the webauthn.Credential CreateCredential builds from the attestation
LibCreateCredential(r) ==
  [ID |-> r.credId, PublicKey |-> r.pubKey, SignCount |-> r.counter,
   CloneWarning |-> FALSE, BackupEligible |-> r.be, BackupState |-> r.bs,
   AttestationType |-> "none", AAGUID |-> 1]

\* an UpdateCounter that also takes 0 after 0 for a counter that did not
\* advance
UpdateCounterStrict(c, presented) ==
  IF presented <= c.SignCount
  THEN [c EXCEPT !.CloneWarning = TRUE]
  ELSE [c EXCEPT !.SignCount = presented]

\* Authenticator.UpdateCounter: a counter that does not advance sets
\* CloneWarning and leaves SignCount as loaded; the call returns no error
UpdateCounter(c, presented) ==
  IF presented <= c.SignCount /\ (presented # 0 \/ c.SignCount # 0)
  THEN [c EXCEPT !.CloneWarning = TRUE]
  ELSE [c EXCEPT !.SignCount = presented]

\* the credential of the loaded list cs that the assertion names
NamedCredential(cs, r) == CHOOSE c \in cs : c.ID = r.credId

\* the checks of webauthn.ValidateLogin on user u carrying the loaded
\* credentials cs; "" when they pass.  r.pubKey is the key that signed.
LibValidateError(u, cs, s, r) ==
  IF SessionError(u, s) # "" THEN SessionError(u, s)
  ELSE IF s.AllowedCredentialIDs # {} /\ r.credId \notin s.AllowedCredentialIDs
    THEN "User does not own the credential returned"
  ELSE IF ~ \E c \in cs : c.ID = r.credId
    THEN "Unable to find the credential for the returned credential ID"
  ELSE IF ClientDataError(s, r) # "" THEN ClientDataError(s, r)
  ELSE IF r.pubKey # NamedCredential(cs, r).PublicKey
    THEN "Error validating the assertion signature"
  ELSE IF NamedCredential(cs, r).BackupEligible # r.be
    THEN "Backup Eligible flag inconsistency detected during login validation"
  ELSE ""

\* the fields of the assertion r that ValidateLogin had read when it
\* returned err: the credential id, then the client data, then the
\* signature, then counter and flags
ReadByValidate(r, err) ==
  LET id == [NoRequest EXCEPT !.challenge = r.challenge, !.credId = r.credId]
      cd == [id EXCEPT !.origin = r.origin]
      sg == [cd EXCEPT !.pubKey = r.pubKey]
  IN CASE err \in {"ID mismatch for User and Session", "Session has Expired"}
            -> [NoRequest EXCEPT !.challenge = r.challenge]
       [] err \in {"User does not own the credential returned",
                   "Unable to find the credential for the returned credential ID"}
            -> id
       [] err \in {"Error validating challenge", "Error validating origin"}
            -> cd
       [] err = "Error validating the assertion signature" -> sg
       [] OTHER -> r

\* the fields of the attestation r that CreateCredential had read when it
\* returned err: the client data comes before the attestation object
ReadByCreate(r, err) ==
  IF err = "" THEN r
  ELSE [NoRequest EXCEPT !.challenge = r.challenge, !.origin = r.origin]

\* the credential ValidateLogin returns: counter and backup state updated
LibValidateLogin(cs, r) ==
  [UpdateCounter(NamedCredential(cs, r), r.counter) EXCEPT !.BackupState = r.bs]

(* -------------------------- handler helpers ---------------------------- *)

\* the scan loop of BeginLogin and FinishLogin: only id, public_key and
\* sign_count are read, every other field keeps its zero value
LoadCredential(row) ==
  [NoCredential EXCEPT !.ID = row.id, !.PublicKey = row.public_key,
                       !.SignCount = row.sign_count]

\* the SessionData FinishLogin rebuilds from the challenge and the user
RebuildSession(challenge, u) ==
  [ZeroSession EXCEPT !.Challenge = challenge, !.UserID = u.ID]

\* models.User scanned from a users row
ScanUser(row) == [ID |-> row.id, Username |-> row.username]

\* http.Error(w, msg, status) followed by return
Fail(pr, status, msg) ==
  [pr EXCEPT !.pc = "done",
             !.resp = [NoResponse EXCEPT !.status = status, !.msg = msg]]

\* requests that will still draw a challenge
Drawing == {q \in Procs : procs[q].pc \in
             {"br_insert_user", "br_insert_challenge", "bl_load", "bl_insert"}}

\* the library can draw one more challenge within the bound max
CanDraw(max) == Len(issued) + Cardinality(Drawing) < max

\* note in finished what a Finish call that found the record of c did
Note(c, ok) ==
  [finished EXCEPT ![c] = [seen |-> TRUE,
                           ok |-> IF ok /\ @.ok < 2 THEN @.ok + 1 ELSE @.ok]]

\* a Finish call carrying c starts after another one on c's record ended
IsReplay(c) == finished[c].seen

(* ------------------------------ Init ----------------------------------- *)

Init ==
  /\ users = {}
  /\ credentials = {}
  /\ challenges = {}
  /\ issued = <<>>
  /\ finished = [c \in ChallengeValues |-> [seen |-> FALSE, ok |-> 0]]
  /\ procs = [p \in Procs |-> IdleProc]

(* ------------------------ BeginRegistration ---------------------------- *)

\* a BeginRegistration that goes on with the stored user when the name is
\* registered
BeginRegistrationAgain(p, name, max) ==
  /\ procs[p].pc = "idle"
  /\ CanDraw(max)
  /\ LET pr == [IdleProc EXCEPT !.op = "BeginRegistration",
                                !.req = [NoRequest EXCEPT !.username = name]]
     IN IF UsersByName(name) # {}
        THEN procs' = [procs EXCEPT ![p] =
               [pr EXCEPT !.pc = "br_insert_challenge",
                          !.user = ScanUser(CHOOSE x \in UsersByName(name) : TRUE)]]
        ELSE procs' = [procs EXCEPT ![p] = [pr EXCEPT !.pc = "br_insert_user"]]
  /\ UNCHANGED <<users, credentials, challenges, issued, finished>>

\* decode the body, SELECT the user by name, 409 when it exists
BeginRegistration(p, name, max) ==
  /\ procs[p].pc = "idle"
  /\ LET pr == [IdleProc EXCEPT !.op = "BeginRegistration",
                                !.req = [NoRequest EXCEPT !.username = name]]
     IN IF UsersByName(name) # {}
        THEN procs' = [procs EXCEPT ![p] = Fail(pr, 409, "User already exists")]
        ELSE /\ CanDraw(max)
             /\ procs' = [procs EXCEPT ![p] = [pr EXCEPT !.pc = "br_insert_user"]]
  /\ UNCHANGED <<users, credentials, challenges, issued, finished>>

\* the same INSERT with ON CONFLICT (username) DO UPDATE SET id = a new id
BR_InsertUserUpsert(p) ==
  LET pr == procs[p] IN
  /\ pr.pc = "br_insert_user"
  /\ users' = (users \ UsersByName(pr.req.username))
                 \cup {[id |-> NewUUID + 1, username |-> pr.req.username]}
  /\ procs' = [procs EXCEPT ![p] =
         [pr EXCEPT !.pc = "br_insert_challenge",
                    !.user = [ID |-> NewUUID + 1,
                              Username |-> pr.req.username]]]
  /\ UNCHANGED <<credentials, challenges, issued, finished>>

\* the same INSERT into a users table whose username column is not UNIQUE
BR_InsertUserNoUnique(p) ==
  LET pr == procs[p] IN
  /\ pr.pc = "br_insert_user"
  /\ users' = users \cup {[id |-> NewUUID, username |-> pr.req.username]}
  /\ procs' = [procs EXCEPT ![p] =
         [pr EXCEPT !.pc = "br_insert_challenge",
                    !.user = [ID |-> NewUUID, Username |-> pr.req.username]]]
  /\ UNCHANGED <<credentials, challenges, issued, finished>>

\* INSERT INTO users (username) ... RETURNING id; username is UNIQUE
BR_InsertUser(p) ==
  LET pr == procs[p] IN
  /\ pr.pc = "br_insert_user"
  /\ IF UsersByName(pr.req.username) # {}
     THEN /\ procs' = [procs EXCEPT ![p] = Fail(pr, 500, "Internal server error")]
          /\ UNCHANGED users
     ELSE /\ users' = users \cup {[id |-> NewUUID, username |-> pr.req.username]}
          /\ procs' = [procs EXCEPT ![p] =
                 [pr EXCEPT !.pc = "br_insert_challenge",
                            !.user = [ID |-> NewUUID,
                                      Username |-> pr.req.username]]]
  /\ UNCHANGED <<credentials, challenges, issued, finished>>

\* webauthn.BeginRegistration, json.Marshal, INSERT INTO challenges, 200
BR_InsertChallenge(p) ==
  LET pr == procs[p]
      s == LibBeginRegistration(pr.user)
      key == Marshal(s)
  IN
  /\ pr.pc = "br_insert_challenge"
  /\ issued' = Append(issued, s)
  /\ IF ChallengeKeyTaken(key) \/ UserGone(pr.user.ID)
     THEN /\ procs' = [procs EXCEPT ![p] =
                 Fail(pr, 500, "Failed to store session data")]
          /\ UNCHANGED challenges
     ELSE /\ challenges' = challenges \cup
                 {[challenge |-> key, user_id |-> pr.user.ID,
                   type |-> "registration", created_at |-> now,
                   expires_at |-> s.Expires]}
          /\ procs' = [procs EXCEPT ![p] =
                 [pr EXCEPT !.pc = "done", !.session = s,
                            !.resp = [NoResponse EXCEPT
                                        !.status = 200,
                                        !.challenge = s.Challenge]]]
  /\ UNCHANGED <<users, credentials, finished>>

(* ----------------------- FinishRegistration ---------------------------- *)

\* the registration rows whose stored SessionData carries challenge c
RegistrationRowsFor(c) ==
  {ch \in ChallengesOfType("registration") : Unmarshal(ch.challenge).Challenge = c}

\* parse the body, SELECT the latest registration challenge, unmarshal it,
\* compare the challenge, SELECT the user, webauthn.CreateCredential
FinishRegistration(p, r) ==
  /\ procs[p].pc = "idle"
  /\ LET pr == [IdleProc EXCEPT
                  !.op = "FinishRegistration", !.req.challenge = r.challenge,
                  !.obs = [NoObs EXCEPT
                             !.replay = IsReplay(r.challenge),
                             !.hadRecord = RegistrationRowsFor(r.challenge) # {}]]
     IN IF LatestOfType("registration") = {}
        THEN /\ procs' = [procs EXCEPT ![p] = Fail(pr, 400, "Challenge not found")]
             /\ UNCHANGED finished
        ELSE \E row \in LatestOfType("registration") :
          LET s == Unmarshal(row.challenge)
              u == ScanUser(CHOOSE x \in UsersById(row.user_id) : TRUE)
              pq == [pr EXCEPT !.obs.expired = row.expires_at < now]
          IN IF s.Challenge # r.challenge
             THEN /\ procs' = [procs EXCEPT ![p] =
                         Fail(pq, 400, "Challenge mismatch")]
                  /\ UNCHANGED finished
             ELSE IF UsersById(row.user_id) = {}
             THEN /\ procs' = [procs EXCEPT ![p] = Fail(pq, 400, "User not found")]
                  /\ finished' = Note(r.challenge, FALSE)
             ELSE IF LibCreateError(u, s, r) # ""
             THEN /\ procs' = [procs EXCEPT ![p] =
                         Fail([pq EXCEPT
                                 !.user = u, !.session = s,
                                 !.req = ReadByCreate(r, LibCreateError(u, s, r))],
                              400, LibCreateError(u, s, r))]
                  /\ finished' = Note(r.challenge, FALSE)
             ELSE /\ procs' = [procs EXCEPT ![p] =
                         [pq EXCEPT !.pc = "fr_insert", !.user = u,
                                    !.session = s, !.req = r,
                                    !.cred = LibCreateCredential(r)]]
                  /\ UNCHANGED finished
  /\ UNCHANGED <<users, credentials, challenges, issued>>

\* the same INSERT with ON CONFLICT (id) DO UPDATE: a row with the same id is
\* overwritten before the conflict is reported
FR_InsertCredentialUpsert(p) ==
  LET pr == procs[p] IN
  /\ pr.pc = "fr_insert"
  /\ credentials' = {c \in credentials : c.id # pr.cred.ID} \cup
         {[id |-> pr.cred.ID, user_id |-> pr.user.ID,
           public_key |-> pr.cred.PublicKey,
           sign_count |-> pr.cred.SignCount,
           backup_eligible |-> pr.cred.BackupEligible,
           backup_state |-> pr.cred.BackupState,
           attestation_type |-> pr.cred.AttestationType,
           aaguid |-> pr.cred.AAGUID]}
  /\ IF \E c \in credentials : c.id = pr.cred.ID
     THEN /\ procs' = [procs EXCEPT ![p] =
                 Fail(pr, 500, "Failed to save credential")]
          /\ finished' = Note(pr.req.challenge, FALSE)
     ELSE /\ procs' = [procs EXCEPT ![p] = [pr EXCEPT !.pc = "fr_delete"]]
          /\ UNCHANGED finished
  /\ UNCHANGED <<users, challenges, issued>>

\* INSERT INTO credentials ...; id is the primary key
FR_InsertCredential(p) ==
  LET pr == procs[p] IN
  /\ pr.pc = "fr_insert"
  /\ IF (\E c \in credentials : c.id = pr.cred.ID) \/ UserGone(pr.user.ID)
     THEN /\ procs' = [procs EXCEPT ![p] =
                 Fail(pr, 500, "Failed to save credential")]
          /\ finished' = Note(pr.req.challenge, FALSE)
          /\ UNCHANGED credentials
     ELSE /\ credentials' = credentials \cup
                 {[id |-> pr.cred.ID, user_id |-> pr.user.ID,
                   public_key |-> pr.cred.PublicKey,
                   sign_count |-> pr.cred.SignCount,
                   backup_eligible |-> pr.cred.BackupEligible,
                   backup_state |-> pr.cred.BackupState,
                   attestation_type |-> pr.cred.AttestationType,
                   aaguid |-> pr.cred.AAGUID]}
          /\ procs' = [procs EXCEPT ![p] = [pr EXCEPT !.pc = "fr_delete"]]
          /\ UNCHANGED finished
  /\ UNCHANGED <<users, challenges, issued>>

\* the DELETE keyed by the raw challenge, as FinishLogin does it: the
\* registration rows are keyed by the marshalled SessionData
FR_DeleteChallengeByKey(p) ==
  LET pr == procs[p] IN
  /\ pr.pc = "fr_delete"
  /\ challenges' = challenges \
         ChallengeRows(RawBytes(pr.req.challenge), "registration")
  /\ procs' = [procs EXCEPT ![p] =
         [pr EXCEPT !.pc = "done",
                    !.resp = [NoResponse EXCEPT
                                !.status = 200,
                                !.msg = "Registration successful"]]]
  /\ finished' = Note(pr.req.challenge, TRUE)
  /\ UNCHANGED <<users, credentials, issued>>

\* DELETE FROM challenges WHERE user_id = $1 AND type = 'registration', 200
FR_DeleteChallenge(p) ==
  LET pr == procs[p] IN
  /\ pr.pc = "fr_delete"
  /\ challenges' = {ch \in challenges :
                      ~ (ch.user_id = pr.user.ID /\ ch.type = "registration")}
  /\ procs' = [procs EXCEPT ![p] =
         [pr EXCEPT !.pc = "done",
                    !.resp = [NoResponse EXCEPT
                                !.status = 200,
                                !.msg = "Registration successful"]]]
  /\ finished' = Note(pr.req.challenge, TRUE)
  /\ UNCHANGED <<users, credentials, issued>>

(* ---------------------------- BeginLogin ------------------------------- *)

\* a BeginLogin that registers the name when the SELECT finds no user
BeginLoginOrCreate(p, name, max) ==
  /\ procs[p].pc = "idle"
  /\ CanDraw(max)
  /\ LET pr == [IdleProc EXCEPT !.op = "BeginLogin",
                                !.req = [NoRequest EXCEPT !.username = name]]
         row == IF UsersByName(name) = {}
                THEN [id |-> NewUUID, username |-> name]
                ELSE CHOOSE x \in UsersByName(name) : TRUE
     IN /\ users' = users \cup {row}
        /\ procs' = [procs EXCEPT ![p] =
               [pr EXCEPT !.pc = "bl_load", !.user = ScanUser(row)]]
  /\ UNCHANGED <<credentials, challenges, issued, finished>>

\* decode the body, SELECT the user by name, 404 when there is none
BeginLogin(p, name, max) ==
  /\ procs[p].pc = "idle"
  /\ LET pr == [IdleProc EXCEPT !.op = "BeginLogin",
                                !.req = [NoRequest EXCEPT !.username = name]]
     IN IF UsersByName(name) = {}
        THEN procs' = [procs EXCEPT ![p] = Fail(pr, 404, "User not found")]
        ELSE /\ CanDraw(max)
             /\ procs' = [procs EXCEPT ![p] =
                    [pr EXCEPT !.pc = "bl_load",
                               !.user = ScanUser(CHOOSE x \in UsersByName(name) : TRUE)]]
  /\ UNCHANGED <<users, credentials, challenges, issued, finished>>

\* SELECT the user's credentials, 404 when there are none,
\* webauthn.BeginLogin
BL_LoadCredentials(p) ==
  LET pr == procs[p]
      cs == {LoadCredential(row) : row \in CredentialsOf(pr.user.ID)}
  IN
  /\ pr.pc = "bl_load"
  /\ IF cs = {}
     THEN procs' = [procs EXCEPT ![p] =
            Fail(pr, 404, "No credentials found for user")]
     ELSE procs' = [procs EXCEPT ![p] =
            [pr EXCEPT !.pc = "bl_insert",
                       !.session = [ZeroSession EXCEPT
                          !.AllowedCredentialIDs = {c.ID : c \in cs}]]]
  /\ UNCHANGED <<users, credentials, challenges, issued, finished>>

\* a BeginLogin that stores its SessionData the way BeginRegistration does:
\* marshalled, with type 'registration'
BL_InsertChallengeAsRegistration(p) ==
  LET pr == procs[p]
      s == [LibBeginLogin(pr.user, {}) EXCEPT
              !.AllowedCredentialIDs = pr.session.AllowedCredentialIDs]
      key == Marshal(s)
  IN
  /\ pr.pc = "bl_insert"
  /\ issued' = Append(issued, s)
  /\ IF ChallengeKeyTaken(key)
     THEN /\ procs' = [procs EXCEPT ![p] =
                 Fail(pr, 500, "Failed to store session data")]
          /\ UNCHANGED challenges
     ELSE /\ challenges' = challenges \cup
                 {[challenge |-> key, user_id |-> pr.user.ID,
                   type |-> "registration", created_at |-> now,
                   expires_at |-> s.Expires]}
          /\ procs' = [procs EXCEPT ![p] =
                 [pr EXCEPT !.pc = "done", !.session = s,
                            !.resp = [NoResponse EXCEPT
                                        !.status = 200,
                                        !.challenge = s.Challenge,
                                        !.allow = s.AllowedCredentialIDs]]]
  /\ UNCHANGED <<users, credentials, finished>>

\* INSERT INTO challenges (user_id, challenge, 'login', expires_at), 200
BL_InsertChallenge(p) ==
  LET pr == procs[p]
      s == [LibBeginLogin(pr.user, {}) EXCEPT
              !.AllowedCredentialIDs = pr.session.AllowedCredentialIDs]
      key == RawBytes(s.Challenge)
  IN
  /\ pr.pc = "bl_insert"
  /\ issued' = Append(issued, s)
  /\ IF ChallengeKeyTaken(key) \/ UserGone(pr.user.ID)
     THEN /\ procs' = [procs EXCEPT ![p] =
                 Fail(pr, 500, "Failed to store session data")]
          /\ UNCHANGED challenges
     ELSE /\ challenges' = challenges \cup
                 {[challenge |-> key, user_id |-> pr.user.ID,
                   type |-> "login", created_at |-> now,
                   expires_at |-> s.Expires]}
          /\ procs' = [procs EXCEPT ![p] =
                 [pr EXCEPT !.pc = "done", !.session = s,
                            !.resp = [NoResponse EXCEPT
                                        !.status = 200,
                                        !.challenge = s.Challenge,
                                        !.allow = s.AllowedCredentialIDs]]]
  /\ UNCHANGED <<users, credentials, finished>>

(* ---------------------------- FinishLogin ------------------------------ *)

\* parse the body, SELECT user_id of the login challenge, SELECT the user
FinishLogin(p, c) ==
  /\ procs[p].pc = "idle"
  /\ LET pr == [IdleProc EXCEPT
                  !.op = "FinishLogin", !.req.challenge = c,
                  !.obs = [NoObs EXCEPT !.replay = IsReplay(c)]]
         rows == ChallengeRows(RawBytes(c), "login")
     IN IF rows = {}
        THEN procs' = [procs EXCEPT ![p] = Fail(pr, 400, "Challenge not found")]
        ELSE \E row \in rows :
          IF UsersById(row.user_id) = {}
          THEN procs' = [procs EXCEPT ![p] = Fail(pr, 400, "User not found")]
          ELSE procs' = [procs EXCEPT ![p] =
                 [pr EXCEPT !.pc = "fl_load",
                            !.obs.expired = row.expires_at < now,
                            !.user = ScanUser(CHOOSE x \in UsersById(row.user_id) : TRUE)]]
  /\ UNCHANGED <<users, credentials, challenges, issued, finished>>

\* what the credentials table holds for credential id at this instant
Observe(obs, id) ==
  IF \E c \in credentials : c.id = id
  THEN LET c == CHOOSE x \in credentials : x.id = id
       IN [obs EXCEPT !.found = TRUE, !.owner = c.user_id,
                      !.count = c.sign_count, !.be = c.backup_eligible,
                      !.bs = c.backup_state]
  ELSE obs

\* a FinishLogin that stores the presented counter before it verifies
FL_ValidateAfterWrite(p, a) ==
  LET pr == procs[p]
      r == [a EXCEPT !.challenge = pr.req.challenge]
      cs == {LoadCredential(row) : row \in CredentialsOf(pr.user.ID)}
      s == RebuildSession(r.challenge, pr.user)
      err == LibValidateError(pr.user, cs, s, r)
      pq == [pr EXCEPT !.req = ReadByValidate(r, err), !.session = s,
                       !.obs = Observe(pr.obs, r.credId)]
  IN
  /\ pr.pc = "fl_load"
  /\ credentials' =
       {IF c.id = r.credId THEN [c EXCEPT !.sign_count = r.counter]
        ELSE c : c \in credentials}
  /\ IF err # ""
     THEN /\ procs' = [procs EXCEPT ![p] = Fail(pq, 401, err)]
          /\ finished' = Note(pr.req.challenge, FALSE)
     ELSE /\ procs' = [procs EXCEPT ![p] =
                 [pq EXCEPT !.pc = "fl_update",
                            !.cred = LibValidateLogin(cs, r)]]
          /\ UNCHANGED finished
  /\ UNCHANGED <<users, challenges, issued>>

\* SELECT the user's credentials, rebuild SessionData, webauthn.ValidateLogin.
\* a is the assertion of the parsed body (its challenge was read before);
\* the handler reads its other fields here for the first time.
FL_Validate(p, a) ==
  LET pr == procs[p]
      r == [a EXCEPT !.challenge = pr.req.challenge]
      cs == {LoadCredential(row) : row \in CredentialsOf(pr.user.ID)}
      s == RebuildSession(r.challenge, pr.user)
      err == LibValidateError(pr.user, cs, s, r)
      pq == [pr EXCEPT !.req = ReadByValidate(r, err), !.session = s,
                       !.obs = Observe(pr.obs, r.credId)]
  IN
  /\ pr.pc = "fl_load"
  /\ IF err # ""
     THEN /\ procs' = [procs EXCEPT ![p] = Fail(pq, 401, err)]
          /\ finished' = Note(pr.req.challenge, FALSE)
     ELSE /\ procs' = [procs EXCEPT ![p] =
                 [pq EXCEPT !.pc = "fl_update",
                            !.cred = LibValidateLogin(cs, r)]]
          /\ UNCHANGED finished
  /\ UNCHANGED <<users, credentials, challenges, issued>>

\* an UPDATE that also stores the backup state the verifier returned
FL_UpdateSignCountAndFlags(p) ==
  LET pr == procs[p] IN
  /\ pr.pc = "fl_update"
  /\ credentials' =
       {IF c.id = pr.cred.ID
        THEN [c EXCEPT !.sign_count = pr.cred.SignCount,
                       !.backup_state = pr.cred.BackupState]
        ELSE c : c \in credentials}
  /\ procs' = [procs EXCEPT ![p] = [pr EXCEPT !.pc = "fl_delete"]]
  /\ UNCHANGED <<users, challenges, issued, finished>>

\* UPDATE credentials SET sign_count = $1 WHERE id = $2
FL_UpdateSignCount(p) ==
  LET pr == procs[p] IN
  /\ pr.pc = "fl_update"
  /\ credentials' =
       {IF c.id = pr.cred.ID THEN [c EXCEPT !.sign_count = pr.cred.SignCount]
        ELSE c : c \in credentials}
  /\ procs' = [procs EXCEPT ![p] = [pr EXCEPT !.pc = "fl_delete"]]
  /\ UNCHANGED <<users, challenges, issued, finished>>

\* the DELETE keyed by user and type, as FinishRegistration does it
FL_DeleteChallengeByUser(p) ==
  LET pr == procs[p] IN
  /\ pr.pc = "fl_delete"
  /\ challenges' = {ch \in challenges :
                      ~ (ch.user_id = pr.user.ID /\ ch.type = "login")}
  /\ procs' = [procs EXCEPT ![p] =
         [pr EXCEPT !.pc = "done",
                    !.resp = [NoResponse EXCEPT
                                !.status = 200, !.msg = "Login successful",
                                !.user = pr.user.Username]]]
  /\ finished' = Note(pr.req.challenge, TRUE)
  /\ UNCHANGED <<users, credentials, issued>>

\* DELETE FROM challenges WHERE challenge = $1 AND type = 'login', 200
FL_DeleteChallenge(p) ==
  LET pr == procs[p] IN
  /\ pr.pc = "fl_delete"
  /\ challenges' = challenges \ ChallengeRows(RawBytes(pr.req.challenge), "login")
  /\ procs' = [procs EXCEPT ![p] =
         [pr EXCEPT !.pc = "done",
                    !.resp = [NoResponse EXCEPT
                                !.status = 200, !.msg = "Login successful",
                                !.user = pr.user.Username]]]
  /\ finished' = Note(pr.req.challenge, TRUE)
  /\ UNCHANGED <<users, credentials, issued>>

(* ------------------------------ plumbing ------------------------------- *)

\* the handler returns and the goroutine serves the next request
Return(p) ==
  /\ procs[p].pc = "done"
  /\ procs' = [procs EXCEPT ![p] = IdleProc]
  /\ UNCHANGED <<users, credentials, challenges, issued, finished>>

\* the key pair an authenticator holds for a credential id
KeyOf(id) == IF id = "c1" THEN "k1" ELSE "k2"

\* the credential-creation responses a client can send
RegistrationResponses ==
  {[NoRequest EXCEPT !.challenge = c, !.origin = o, !.credId = id,
                     !.pubKey = KeyOf(id), !.counter = n,
                     !.be = f[1], !.bs = f[2]] :
     c \in ChallengeValues, o \in Origins, id \in CredIds,
     n \in Counters, f \in Flags}

\* the assertions a client can send; pubKey is the key that signed
AssertionResponses ==
  {[NoRequest EXCEPT !.origin = o, !.credId = id, !.pubKey = k,
                     !.counter = n, !.be = f[1], !.bs = f[2]] :
     o \in Origins, id \in CredIds, k \in Keys, n \in Counters, f \in Flags}

\* the requests of clients that follow the protocol: one account, the
\* configured origin, assertions signed with the credential's own key
HonestUsernames == {"alice"}

HonestRegistrations ==
  {r \in RegistrationResponses :
     r.origin \in RPOrigins /\ r.counter = 0 /\ ~ r.be /\ ~ r.bs}

HonestAssertions ==
  {a \in AssertionResponses :
     a.origin \in RPOrigins /\ a.pubKey = KeyOf(a.credId) /\ ~ a.be /\ ~ a.bs}

\* the goroutine that serves when requests arrive one at a time
Server == "g1"

\* requests of any client, served one after the other
Next ==
  \/ \E name \in Usernames : BeginRegistration(Server, name, MaxChallenges)
  \/ BR_InsertUser(Server)
  \/ BR_InsertChallenge(Server)
  \/ \E r \in RegistrationResponses : FinishRegistration(Server, r)
  \/ FR_InsertCredential(Server)
  \/ FR_DeleteChallenge(Server)
  \/ \E name \in Usernames : BeginLogin(Server, name, MaxChallenges)
  \/ BL_LoadCredentials(Server)
  \/ BL_InsertChallenge(Server)
  \/ \E c \in ChallengeValues : FinishLogin(Server, c)
  \/ \E a \in AssertionResponses : FL_Validate(Server, a)
  \/ FL_UpdateSignCount(Server)
  \/ FL_DeleteChallenge(Server)
  \/ Return(Server)

Spec == Init /\ [][Next]_vars

\* the statements a handler runs once its request has been accepted
Handling ==
  \/ BR_InsertUser(Server)
  \/ BR_InsertChallenge(Server)
  \/ FR_InsertCredential(Server)
  \/ FR_DeleteChallenge(Server)
  \/ BL_LoadCredentials(Server)
  \/ BL_InsertChallenge(Server)
  \/ \E a \in AssertionResponses : FL_Validate(Server, a)
  \/ FL_UpdateSignCount(Server)
  \/ FL_DeleteChallenge(Server)
  \/ Return(Server)

\* net/http runs every handler it has started to its return; no client is
\* obliged to send a request
SpecFair == Spec /\ WF_vars(Handling)

\* the reset of the README, run from psql while the server is up:
\* DELETE FROM credentials; DELETE FROM challenges; DELETE FROM users;
\* sent as one query, hence one transaction
ResetDatabase ==
  /\ credentials' = {}
  /\ challenges' = {}
  /\ users' = {}
  /\ UNCHANGED <<issued, finished, procs>>

\* requests served one after the other, and the reset at any moment
NextReset == Next \/ ResetDatabase

SpecReset == Init /\ [][NextReset]_vars

\* the challenges the library can draw: 32 random bytes are new or, with a
\* probability that is not zero, the bytes of an earlier draw
Draws == {c \in ChallengeValues : c <= FreshChallenge}

\* BR_InsertChallenge with the library drawing challenge c
BR_InsertChallengeDrawn(p, c) ==
  LET pr == procs[p]
      s == [LibBeginRegistration(pr.user) EXCEPT !.Challenge = c]
      key == Marshal(s)
  IN
  /\ pr.pc = "br_insert_challenge"
  /\ issued' = Append(issued, s)
  /\ IF ChallengeKeyTaken(key) \/ UserGone(pr.user.ID)
     THEN /\ procs' = [procs EXCEPT ![p] =
                 Fail(pr, 500, "Failed to store session data")]
          /\ UNCHANGED challenges
     ELSE /\ challenges' = challenges \cup
                 {[challenge |-> key, user_id |-> pr.user.ID,
                   type |-> "registration", created_at |-> now,
                   expires_at |-> s.Expires]}
          /\ procs' = [procs EXCEPT ![p] =
                 [pr EXCEPT !.pc = "done", !.session = s,
                            !.resp = [NoResponse EXCEPT
                                        !.status = 200,
                                        !.challenge = s.Challenge]]]
  /\ UNCHANGED <<users, credentials, finished>>

\* BL_InsertChallenge with the library drawing challenge c
BL_InsertChallengeDrawn(p, c) ==
  LET pr == procs[p]
      s == [LibBeginLogin(pr.user, {}) EXCEPT
              !.Challenge = c,
              !.AllowedCredentialIDs = pr.session.AllowedCredentialIDs]
      key == RawBytes(s.Challenge)
  IN
  /\ pr.pc = "bl_insert"
  /\ issued' = Append(issued, s)
  /\ IF ChallengeKeyTaken(key) \/ UserGone(pr.user.ID)
     THEN /\ procs' = [procs EXCEPT ![p] =
                 Fail(pr, 500, "Failed to store session data")]
          /\ UNCHANGED challenges
     ELSE /\ challenges' = challenges \cup
                 {[challenge |-> key, user_id |-> pr.user.ID,
                   type |-> "login", created_at |-> now,
                   expires_at |-> s.Expires]}
          /\ procs' = [procs EXCEPT ![p] =
                 [pr EXCEPT !.pc = "done", !.session = s,
                            !.resp = [NoResponse EXCEPT
                                        !.status = 200,
                                        !.challenge = s.Challenge,
                                        !.allow = s.AllowedCredentialIDs]]]
  /\ UNCHANGED <<users, credentials, finished>>

\* requests of clients that follow the protocol, served one after the
\* other, the library drawing challenges that may repeat
NextCollide ==
  \/ \E name \in Usernames : BeginRegistration(Server, name, MaxChallenges)
  \/ BR_InsertUser(Server)
  \/ \E c \in Draws : BR_InsertChallengeDrawn(Server, c)
  \/ \E r \in HonestRegistrations : FinishRegistration(Server, r)
  \/ FR_InsertCredential(Server)
  \/ FR_DeleteChallenge(Server)
  \/ \E name \in Usernames : BeginLogin(Server, name, MaxChallenges)
  \/ BL_LoadCredentials(Server)
  \/ \E c \in Draws : BL_InsertChallengeDrawn(Server, c)
  \/ \E c \in ChallengeValues : FinishLogin(Server, c)
  \/ \E a \in HonestAssertions : FL_Validate(Server, a)
  \/ FL_UpdateSignCount(Server)
  \/ FL_DeleteChallenge(Server)
  \/ Return(Server)

SpecCollide == Init /\ [][NextCollide]_vars

\* the INSERT INTO challenges of BeginRegistration returning an error because
\* the store cannot be reached or refuses the statement
BR_InsertChallengeFails(p) ==
  LET pr == procs[p] IN
  /\ pr.pc = "br_insert_challenge"
  /\ issued' = Append(issued, LibBeginRegistration(pr.user))
  /\ procs' = [procs EXCEPT ![p] =
         Fail(pr, 500, "Failed to store session data")]
  /\ UNCHANGED <<users, credentials, challenges, finished>>

\* requests served one after the other, the store failing at will at the
\* INSERT of a registration challenge
NextOutage == Next \/ BR_InsertChallengeFails(Server)

SpecOutage == Init /\ [][NextOutage]_vars

\* requests of honest clients, served by both goroutines, their SQL
\* statements interleaved
NextRace ==
  \/ \E p \in Procs, name \in HonestUsernames :
        BeginRegistration(p, name, MaxRaceChallenges)
  \/ \E p \in Procs : BR_InsertUser(p)
  \/ \E p \in Procs : BR_InsertChallenge(p)
  \/ \E p \in Procs, r \in HonestRegistrations : FinishRegistration(p, r)
  \/ \E p \in Procs : FR_InsertCredential(p)
  \/ \E p \in Procs : FR_DeleteChallenge(p)
  \/ \E p \in Procs, name \in HonestUsernames :
        BeginLogin(p, name, MaxRaceChallenges)
  \/ \E p \in Procs : BL_LoadCredentials(p)
  \/ \E p \in Procs : BL_InsertChallenge(p)
  \/ \E p \in Procs, c \in ChallengeValues : FinishLogin(p, c)
  \/ \E p \in Procs, a \in HonestAssertions : FL_Validate(p, a)
  \/ \E p \in Procs : FL_UpdateSignCount(p)
  \/ \E p \in Procs : FL_DeleteChallenge(p)
  \/ \E p \in Procs : Return(p)

SpecRace == Init /\ [][NextRace]_vars

(* ------------------------------ claims --------------------------------- *)

FinishOps == {"FinishRegistration", "FinishLogin"}

\* the request of p has been answered
Answered(p) == procs[p].pc = "done"

\* the request of p has been answered with 200
Succeeded(p) == Answered(p) /\ procs[p].resp.status = 200

\* the user the library issued challenge c for
IssuedFor(c) == issued[c].UserID

\* C1: a Finish call that starts after another Finish call on the record of
\* the same challenge has ended (with success or with a failure) does not
\* succeed.
C1_SingleUseChallenge ==
  \A p \in Procs :
    (Answered(p) /\ procs[p].op \in FinishOps /\ procs[p].obs.replay)
      => procs[p].resp.status # 200

\* C2: whatever the interleaving of the statements of two Finish calls, at
\* most one Finish call per challenge is answered with success.
C2_AtMostOneSuccess ==
  \A c \in ChallengeValues : finished[c].ok <= 1

\* C3: a FinishLogin that presents a counter M <= N, N the sign_count stored
\* for the credential of the user (not M = N = 0), is not answered with
\* success.
C3_CounterRollbackRejected ==
  \A p \in Procs :
    ( /\ Answered(p) /\ procs[p].op = "FinishLogin"
      /\ procs[p].obs.found /\ procs[p].obs.owner = procs[p].user.ID
      /\ procs[p].req.counter <= procs[p].obs.count
      /\ ~ (procs[p].req.counter = 0 /\ procs[p].obs.count = 0) )
      => procs[p].resp.status # 200

\* C4: no step lowers the sign_count stored for a credential.
C4_SignCountNeverDecreases ==
  [][\A c \in credentials : \A d \in credentials' :
        d.id = c.id => d.sign_count >= c.sign_count]_vars

\* C5: a Finish call that read a challenge row whose expires_at lies in the
\* past is not answered with success.
C5_ExpiredChallengeRejected ==
  \A p \in Procs :
    (Answered(p) /\ procs[p].op \in FinishOps /\ procs[p].obs.expired)
      => procs[p].resp.status # 200

\* C6: the SessionData a Finish call hands to the verifier equals, field for
\* field, the SessionData the library produced at Begin for that challenge.
C6_SessionRoundTrip ==
  \A p \in Procs :
    (procs[p].op \in FinishOps /\ procs[p].session # ZeroSession)
      => /\ procs[p].req.challenge <= Len(issued)
         /\ procs[p].session = issued[procs[p].req.challenge]

\* C7: a FinishLogin presenting a backupEligible flag that differs from the
\* stored one is not answered with success, and one presenting the stored
\* flag is not answered with the backup-flag inconsistency (whatever its
\* backupState).
C7_BackupEligibleImmutable ==
  \A p \in Procs :
    ( /\ Answered(p) /\ procs[p].op = "FinishLogin"
      /\ procs[p].obs.found /\ procs[p].obs.owner = procs[p].user.ID )
      => /\ procs[p].req.be # procs[p].obs.be => procs[p].resp.status # 200
         /\ procs[p].req.be = procs[p].obs.be =>
              procs[p].resp.msg #
                "Backup Eligible flag inconsistency detected during login validation"

\* C8: a FinishRegistration that starts while a registration record for the
\* challenge of its response is stored is not answered with "Challenge not
\* found" or "Challenge mismatch".
C8_ResolvedByChallenge ==
  \A p \in Procs :
    ( /\ Answered(p) /\ procs[p].op = "FinishRegistration"
      /\ procs[p].obs.hadRecord )
      => procs[p].resp.msg \notin {"Challenge not found", "Challenge mismatch"}

\* C9: a FinishLogin gets past verification only when the credential named
\* in the assertion belongs to the user the challenge was issued for; it
\* writes the sign_count of that credential only, and its success response
\* carries the username of that user.
C9_OwnerBinding ==
  \A p \in Procs :
    LET pr == procs[p] IN
    ( /\ pr.op = "FinishLogin"
      /\ pr.pc \in {"fl_update", "fl_delete"} \/ Succeeded(p) )
      => /\ pr.req.challenge <= Len(issued)
         /\ pr.cred.ID = pr.req.credId
         /\ \E c \in credentials :
              c.id = pr.cred.ID /\ c.user_id = IssuedFor(pr.req.challenge)
         /\ Succeeded(p) =>
              \E u \in users : /\ u.id = IssuedFor(pr.req.challenge)
                                /\ u.username = pr.resp.user

\* C9 witness: an assertion that names the stored credential of another
\* user has been rejected.
C9_Witness ==
  \E p \in Procs :
    LET pr == procs[p] IN
    /\ Answered(p) /\ pr.op = "FinishLogin" /\ pr.resp.status = 401
    /\ pr.obs.found /\ pr.obs.owner # pr.user.ID
    /\ \E c \in credentials : c.id = pr.req.credId /\ c.user_id # pr.user.ID

\* C10: a Finish call whose client data carries an origin outside RPOrigins
\* never reaches the statement that writes the credentials table and is not
\* answered with success.
C10_OriginBinding ==
  \A p \in Procs :
    LET pr == procs[p] IN
    ( /\ pr.op \in FinishOps
      /\ pr.req.origin # "" /\ pr.req.origin \notin RPOrigins )
      => /\ pr.pc \notin {"fr_insert", "fr_delete", "fl_update", "fl_delete"}
         /\ pr.resp.status # 200

\* C10 witness: an assertion that names a credential of the challenge's user
\* has been rejected for its origin.
C10_Witness ==
  \E p \in Procs :
    LET pr == procs[p] IN
    /\ Answered(p) /\ pr.op = "FinishLogin"
    /\ pr.resp.msg = "Error validating origin"
    /\ pr.obs.found /\ pr.obs.owner = pr.user.ID
    /\ pr.req.origin \notin RPOrigins

\* the request p took a step
Stepped(p) == procs'[p] # procs[p]

C12_SuccessLeavesNoCeremonyState ==
  \A p \in Procs :
    LET pr == procs[p] IN
    (Succeeded(p) /\ pr.op \in FinishOps)
      => /\ RegistrationRowsFor(pr.req.challenge) = {}
         /\ ChallengeRows(RawBytes(pr.req.challenge), "login") = {}
         /\ pr.op = "FinishRegistration" =>
              \E c \in credentials :
                /\ c.id = pr.req.credId /\ c.user_id = pr.user.ID
                /\ c.public_key = pr.req.pubKey
         /\ pr.op = "FinishLogin" =>
              \E c \in credentials :
                c.id = pr.req.credId /\ c.sign_count = pr.cred.SignCount

\* C12 witness: a FinishRegistration has been answered with success while
\* the record of another ceremony is still stored.
C12_Witness ==
  \E p \in Procs :
    /\ Succeeded(p) /\ procs[p].op = "FinishRegistration"
    /\ challenges # {}

\* no two users rows carry the same username
UniqueUsernames ==
  \A u \in users : \A v \in users : u.username = v.username => u = v

\* C13: usernames are unique in every state, also when the statements of
\* two BeginRegistration calls for one name interleave; a BeginRegistration
\* that starts when its name is registered is answered 409 at once, and no
\* step of a BeginRegistration that ends in an error answer adds a user or
\* a challenge.
C13_UniqueUsernames ==
  /\ []UniqueUsernames
  /\ [][\A p \in Procs :
          (Stepped(p) /\ procs'[p].op = "BeginRegistration")
            => /\ (procs[p].pc = "idle" /\ UsersByName(procs'[p].req.username) # {})
                    => (procs'[p].pc = "done" /\ procs'[p].resp.status = 409)
               /\ (procs'[p].pc = "done" /\ procs'[p].resp.status # 200)
                    => (users' = users /\ challenges' = challenges)]_vars

\* C13 witness: of two interleaved BeginRegistration calls for one name, the
\* one whose INSERT came second has been turned down by the UNIQUE
\* constraint.
C13_Witness ==
  \E p \in Procs :
    LET pr == procs[p] IN
    /\ Answered(p) /\ pr.op = "BeginRegistration"
    /\ pr.resp.status = 500 /\ pr.resp.msg = "Internal server error"
    /\ UsersByName(pr.req.username) # {}

\* C14: no step of a BeginLogin changes the users or the credentials table,
\* and a BeginLogin for a name without a users row is answered 404 at once
\* with the challenges table left as it was.
C14_LoginNeverCreatesUser ==
  [][\A p \in Procs :
       (Stepped(p) /\ procs'[p].op = "BeginLogin")
         => /\ users' = users /\ credentials' = credentials
            /\ (procs[p].pc = "idle" /\ UsersByName(procs'[p].req.username) = {})
                 => /\ procs'[p].pc = "done" /\ procs'[p].resp.status = 404
                    /\ challenges' = challenges]_vars

\* C14 witness: a BeginLogin for a name nobody registered has been answered
\* 404 while another name is registered.
C14_Witness ==
  \E p \in Procs :
    LET pr == procs[p] IN
    /\ Answered(p) /\ pr.op = "BeginLogin"
    /\ pr.resp.status = 404 /\ pr.resp.msg = "User not found"
    /\ UsersByName(pr.req.username) = {} /\ users # {}

\* C15: a BeginLogin whose user has no row in credentials when the
\* credentials are loaded is answered 404 "No credentials found for user",
\* and that step stores no challenge.
C15_NoCredentialsRegistered ==
  [][\A p \in Procs :
       ( /\ Stepped(p) /\ procs[p].pc = "bl_load"
         /\ ~ \E c \in credentials : c.user_id = procs[p].user.ID )
         => /\ procs'[p].pc = "done" /\ procs'[p].resp.status = 404
            /\ procs'[p].resp.msg = "No credentials found for user"
            /\ challenges' = challenges /\ issued' = issued]_vars

\* C15 witness: a BeginLogin of a user without credentials has been turned
\* down while another user has a credential.
C15_Witness ==
  \E p \in Procs :
    LET pr == procs[p] IN
    /\ Answered(p) /\ pr.op = "BeginLogin"
    /\ pr.resp.msg = "No credentials found for user"
    /\ UsersById(pr.user.ID) # {}
    /\ credentials # {} /\ \A c \in credentials : c.user_id # pr.user.ID

\* no two credentials rows carry the same id
UniqueCredentialIds ==
  \A c \in credentials : \A d \in credentials : c.id = d.id => c = d

\* C16: credential ids are unique over all users in every state; the INSERT
\* of a FinishRegistration whose credential id is already in the table is
\* answered with an error and leaves every row as it was.
C16_UniqueCredentialIds ==
  /\ []UniqueCredentialIds
  /\ [][\A p \in Procs :
          ( /\ Stepped(p) /\ procs[p].pc = "fr_insert"
            /\ \E c \in credentials : c.id = procs[p].cred.ID )
            => /\ procs'[p].pc = "done" /\ procs'[p].resp.status >= 400
               /\ credentials' = credentials]_vars

\* C16 witness: a FinishRegistration presenting the credential id of another
\* user has been turned down at the INSERT.
C16_Witness ==
  \E p \in Procs :
    LET pr == procs[p] IN
    /\ Answered(p) /\ pr.op = "FinishRegistration"
    /\ pr.resp.status = 500
    /\ \E c \in credentials : c.id = pr.cred.ID /\ c.user_id # pr.user.ID

\* C17: every credentials row is still there after every step with all its
\* fields but sign_count unchanged, and its sign_count changes only in the
\* UPDATE of a FinishLogin that passed verification with that credential.
C17_OnlySignCountChanges ==
  [][\A c \in credentials :
       \E d \in credentials' :
         /\ d = [c EXCEPT !.sign_count = d.sign_count]
         /\ d.sign_count # c.sign_count =>
              \E p \in Procs :
                /\ Stepped(p) /\ procs[p].op = "FinishLogin"
                /\ procs[p].pc = "fl_update" /\ procs[p].cred.ID = c.id]_vars

\* C17 witness: a successful FinishLogin has raised the sign_count of a
\* credential stored as backed up.
C17_Witness ==
  \E p \in Procs :
    LET pr == procs[p] IN
    /\ Succeeded(p) /\ pr.op = "FinishLogin" /\ pr.obs.count = 0
    /\ \E c \in credentials :
         c.id = pr.cred.ID /\ c.sign_count = 1 /\ c.backup_state

\* C18: of the steps of a FinishRegistration that is answered with success,
\* the INSERT adds exactly one credentials row, owned by the user the
\* challenge of the response was issued for and with the counter of the
\* attestation as its sign_count; its other steps leave the table alone.
C18_RegistrationStoresOneCredential ==
  [][\A p \in Procs :
       (Stepped(p) /\ procs'[p].op = "FinishRegistration")
         => /\ procs'[p].pc = "fr_delete" =>
                 \E row \in credentials' \ credentials :
                   /\ credentials' = credentials \cup {row}
                   /\ row.id = procs[p].req.credId
                   /\ row.user_id = IssuedFor(procs[p].req.challenge)
                   /\ row.sign_count = procs[p].req.counter
            /\ procs'[p].pc # "fr_delete" => credentials' = credentials
            /\ procs'[p].resp.status = 200 => procs[p].pc = "fr_delete"]_vars

\* C18 witness: a FinishRegistration whose attestation carried counter 1 has
\* been answered with success and the row of its credential is stored.
C18_Witness ==
  \E p \in Procs :
    LET pr == procs[p] IN
    /\ Succeeded(p) /\ pr.op = "FinishRegistration" /\ pr.req.counter = 1
    /\ \E c \in credentials : c.id = pr.req.credId /\ c.user_id = pr.user.ID

\* the loaded webauthn.Credential c carries the stored fields of row
CarriesStoredFields(c, row) ==
  /\ c.ID = row.id /\ c.PublicKey = row.public_key
  /\ c.SignCount = row.sign_count
  /\ c.BackupEligible = row.backup_eligible
  /\ c.BackupState = row.backup_state
  /\ c.AAGUID = row.aaguid

\* C19: when BeginLogin or FinishLogin has loaded the credentials of its
\* user, every loaded credential carries the public key, sign count,
\* backupEligible, backupState and AAGUID stored for it.
C19_LoadsAllFields ==
  \A p \in Procs :
    LET pr == procs[p] IN
    ( \/ pr.op = "BeginLogin" /\ pr.pc = "bl_insert"
      \/ pr.op = "FinishLogin" /\ pr.pc = "fl_update" )
      => \A row \in CredentialsOf(pr.user.ID) :
           CarriesStoredFields(LoadCredential(row), row)

\* C20: in every state each user owns at most one credential, also when
\* the statements of two FinishRegistration calls for one challenge
\* interleave or a FinishRegistration is repeated.
C20_OneCredentialPerUser ==
  \A c \in credentials : \A d \in credentials :
    c.user_id = d.user_id => c = d

\* a challenges row carrying challenge value c is stored
Stored(c) ==
  RegistrationRowsFor(c) # {} \/ ChallengeRows(RawBytes(c), "login") # {}

\* C21: every challenge record is eventually removed from the challenges
\* table, also when no Finish call ever consumes it.
C21_ChallengeEventuallyRemoved ==
  \A c \in ChallengeValues : Stored(c) ~> ~ Stored(c)

\* the FinishLogin of p has passed webauthn.ValidateLogin
PassedValidation(p) ==
  /\ procs[p].op = "FinishLogin"
  /\ procs[p].pc \in {"fl_update", "fl_delete"} \/ Succeeded(p)

C23_UsersNeverChange ==
  [][/\ \A u \in users : u \in users'
     /\ \A v \in users' \ users :
          /\ \A u \in users : u.id # v.id
          /\ \E p \in Procs :
               /\ Stepped(p) /\ procs[p].op = "BeginRegistration"
               /\ procs[p].pc = "br_insert_user"]_vars

\* C23 witness: a users row has lived through the registration and a
\* successful login of its user.
C23_Witness ==
  /\ \E u \in users : \E c \in credentials : c.user_id = u.id
  /\ \E c \in ChallengeValues :
       c <= Len(issued) /\ issued[c].AllowedCredentialIDs # {}
                        /\ finished[c].ok = 1

\* the ceremony whose Begin drew challenge c: only BeginRegistration puts
\* credential parameters into its SessionData
CeremonyOf(c) ==
  IF issued[c].CredParams # <<>> THEN "FinishRegistration" ELSE "FinishLogin"

\* C24: a Finish call that carries a challenge drawn by the Begin of the
\* other ceremony never gets to the statements that write credentials and
\* is not answered with success.
C24_CeremonyTypeSeparation ==
  \A p \in Procs :
    LET pr == procs[p] IN
    ( /\ pr.op \in FinishOps
      /\ pr.req.challenge \in 1 .. Len(issued)
      /\ CeremonyOf(pr.req.challenge) # pr.op )
      => /\ pr.pc \notin {"fr_insert", "fr_delete", "fl_update", "fl_delete"}
         /\ pr.resp.status # 200

\* C24 witness: a FinishRegistration carrying a challenge that BeginLogin
\* drew, its record still stored, has been turned down.
C24_Witness ==
  \E p \in Procs :
    LET pr == procs[p] IN
    /\ Answered(p) /\ pr.op = "FinishRegistration" /\ pr.resp.status = 400
    /\ pr.req.challenge \in 1 .. Len(issued)
    /\ CeremonyOf(pr.req.challenge) = "FinishLogin"
    /\ Stored(pr.req.challenge)
    /\ ChallengesOfType("registration") # {}

\* C25: the step that answers a BeginLogin with success returns as allowed
\* credentials the ids of the credentials stored for its user, no other,
\* and adds exactly one challenges row, of type login, for that user and
\* the returned challenge; no other step of a BeginLogin stores a challenge.
C25_BeginLoginOptions ==
  [][\A p \in Procs :
       (Stepped(p) /\ procs'[p].op = "BeginLogin")
         => IF procs'[p].resp.status = 200
            THEN /\ procs'[p].resp.allow =
                      {c.id : c \in {d \in credentials :
                                       d.user_id = procs'[p].user.ID}}
                 /\ \E row \in challenges' \ challenges :
                      /\ challenges' = challenges \cup {row}
                      /\ row.type = "login"
                      /\ row.user_id = procs'[p].user.ID
                      /\ row.challenge = RawBytes(procs'[p].resp.challenge)
            ELSE challenges' = challenges]_vars

\* C25 witness: a BeginLogin has been answered with success while another
\* user has a credential too.
C25_Witness ==
  \E p \in Procs :
    LET pr == procs[p] IN
    /\ Succeeded(p) /\ pr.op = "BeginLogin" /\ pr.resp.allow # {}
    /\ \E c \in credentials : c.user_id # pr.user.ID

\* C26: when the row of the credential is gone at the UPDATE of a
\* FinishLogin, that step ends the call with an error answer.
C26_VanishedCredentialNotFound ==
  [][\A p \in Procs :
       ( /\ Stepped(p) /\ procs[p].pc = "fl_update"
         /\ ~ \E c \in credentials : c.id = procs[p].cred.ID )
         => /\ procs'[p].pc = "done"
            /\ procs'[p].resp.status >= 400]_vars

\* no two challenges rows carry the same key
UniqueChallengeKeys ==
  \A a \in challenges : \A b \in challenges :
    a.challenge = b.challenge => a = b

\* the key under which the Begin call of p stores the session drawn last
DrawnKey(p) ==
  IF procs[p].op = "BeginRegistration"
  THEN Marshal(issued'[Len(issued')])
  ELSE RawBytes(issued'[Len(issued')].Challenge)

\* C27: the keys of the challenges table are unique in every state; the
\* INSERT of a Begin call whose key is already in the table ends the call
\* with an error answer that carries no options and leaves the table as it
\* was.
C27_UniqueChallengeKeys ==
  /\ []UniqueChallengeKeys
  /\ [][\A p \in Procs :
          ( /\ Stepped(p)
            /\ procs[p].pc \in {"br_insert_challenge", "bl_insert"}
            /\ \E ch \in challenges : ch.challenge = DrawnKey(p) )
            => /\ procs'[p].pc = "done" /\ procs'[p].resp.status >= 400
               /\ procs'[p].resp.challenge = NoChallenge
               /\ challenges' = challenges]_vars

\* C27 witness: a BeginLogin for which the library drew the challenge of a
\* stored login record has been turned down at the INSERT.
C27_Witness ==
  \E p \in Procs :
    LET pr == procs[p] IN
    /\ Answered(p) /\ pr.op = "BeginLogin"
    /\ pr.resp.status = 500 /\ pr.resp.msg = "Failed to store session data"
    /\ ChallengeRows(RawBytes(issued[Len(issued)].Challenge), "login") # {}

\* C28: every step of a FinishLogin up to and including an error answer for
\* the challenge lookup, the user lookup or the verification leaves the
\* credentials table, and so every stored sign_count, as it was; these are
\* the only error answers of a FinishLogin.
C28_FailedLoginKeepsSignCount ==
  [][\A p \in Procs :
       (Stepped(p) /\ procs'[p].op = "FinishLogin")
         => /\ ( \/ procs'[p].pc \in {"fl_load", "fl_update"}
                 \/ procs'[p].pc = "done" /\ procs'[p].resp.status # 200 )
                 => credentials' = credentials
            /\ (procs'[p].pc = "done" /\ procs'[p].resp.status # 200)
                 => procs[p].pc \in {"idle", "fl_load"}]_vars

\* C28 witness: a FinishLogin presenting counter 1 for a credential stored
\* with sign_count 0 has failed verification, and the stored sign_count is 0.
C28_Witness ==
  \E p \in Procs :
    LET pr == procs[p] IN
    /\ Answered(p) /\ pr.op = "FinishLogin" /\ pr.resp.status = 401
    /\ pr.req.counter = 1
    /\ \E c \in credentials :
         c.id = pr.req.credId /\ c.user_id = pr.user.ID /\ c.sign_count = 0

\* C29: the challenges rows a step removes are removed by the DELETE of a
\* Finish call: by a FinishLogin only the login row keyed by the challenge
\* of its response, by a FinishRegistration only registration rows of its
\* own user.
C29_DeletesOwnChallengeOnly ==
  [][challenges \ challenges' # {} =>
       \E p \in Procs :
         /\ Stepped(p)
         /\ \/ /\ procs[p].op = "FinishLogin" /\ procs[p].pc = "fl_delete"
               /\ \A ch \in challenges \ challenges' :
                    /\ ch.type = "login"
                    /\ ch.challenge = RawBytes(procs[p].req.challenge)
            \/ /\ procs[p].op = "FinishRegistration"
               /\ procs[p].pc = "fr_delete"
               /\ \A ch \in challenges \ challenges' :
                    /\ ch.type = "registration"
                    /\ ch.user_id = IssuedFor(procs[p].req.challenge)]_vars

\* C29 witness: a FinishLogin has been answered with success and another
\* login challenge of the same user is still stored.
C29_Witness ==
  \E p \in Procs :
    LET pr == procs[p] IN
    /\ Succeeded(p) /\ pr.op = "FinishLogin"
    /\ \E ch \in ChallengesOfType("login") :
         /\ ch.user_id = pr.user.ID
         /\ ch.challenge # RawBytes(pr.req.challenge)

\* C30: in every state, also when the statements of BeginRegistration and
\* FinishRegistration calls interleave, no user has two registration rows
\* in the challenges table.
C30_OnePendingRegistration ==
  \A a \in ChallengesOfType("registration") :
    \A b \in ChallengesOfType("registration") :
      a.user_id = b.user_id => a = b

\* C30 witness: a BeginRegistration for the name of a user whose
\* registration challenge is pending has been turned down.
C30_Witness ==
  \E p \in Procs :
    LET pr == procs[p] IN
    /\ Answered(p) /\ pr.op = "BeginRegistration" /\ pr.resp.status = 409
    /\ \E u \in UsersByName(pr.req.username) :
         \E ch \in ChallengesOfType("registration") : ch.user_id = u.id

\* user u owns a credential or has a registration row in challenges
Anchored(u) ==
  \/ \E c \in credentials : c.user_id = u.id
  \/ \E ch \in ChallengesOfType("registration") : ch.user_id = u.id

\* C31: every users row owns a credential or has a pending registration
\* challenge, in every state in which no BeginRegistration stands between
\* its INSERT into users and its INSERT into challenges (in those states
\* the user it created has neither yet).
C31_NoOrphanedUser ==
  (\A p \in Procs : procs[p].pc # "br_insert_challenge")
    => \A u \in users : Anchored(u)

\* C32: a BeginRegistration that has been answered with an error has left
\* no users row of its own behind.
C32_FailedBeginCreatesNoUser ==
  \A p \in Procs :
    LET pr == procs[p] IN
    (Answered(p) /\ pr.op = "BeginRegistration" /\ pr.resp.status # 200)
      => ~ \E u \in users : u.id = pr.user.ID

\* the library has drawn at most one registration challenge for each user
OneRegistrationChallengeEver ==
  \A c1 \in 1 .. Len(issued) :
    \A c2 \in 1 .. Len(issued) :
      ( /\ CeremonyOf(c1) = "FinishRegistration"
        /\ CeremonyOf(c2) = "FinishRegistration"
        /\ IssuedFor(c1) = IssuedFor(c2) ) => c1 = c2

\* C33: a user is issued one registration challenge and no more: a
\* BeginRegistration for the name of a user who owns no credential is
\* answered 409 at once and writes and draws nothing, a login challenge is
\* drawn only for a user who owns a credential, and every credentials row
\* is added by a FinishRegistration that carries the registration challenge
\* issued for the user of that row.
C33_OnlyOriginalChallengeCompletes ==
  /\ []OneRegistrationChallengeEver
  /\ [][\A p \in Procs :
          Stepped(p) =>
            /\ ( /\ procs[p].pc = "idle"
                 /\ procs'[p].op = "BeginRegistration"
                 /\ \E u \in UsersByName(procs'[p].req.username) :
                      ~ \E c \in credentials : c.user_id = u.id )
                 => /\ procs'[p].pc = "done" /\ procs'[p].resp.status = 409
                    /\ issued' = issued /\ challenges' = challenges
                    /\ users' = users
            /\ ( /\ Len(issued') > Len(issued)
                 /\ issued'[Len(issued')].CredParams = <<>> )
                 => \E c \in credentials :
                      c.user_id = issued'[Len(issued')].UserID
            /\ \A row \in credentials' :
                 (\A c \in credentials : c.id # row.id) =>
                 /\ procs'[p].op = "FinishRegistration"
                 /\ procs'[p].req.challenge \in 1 .. Len(issued)
                 /\ CeremonyOf(procs'[p].req.challenge) = "FinishRegistration"
                 /\ IssuedFor(procs'[p].req.challenge) = row.user_id]_vars

\* C33 witness: a BeginRegistration for the name of a user who owns no
\* credential, the challenge of the first registration still pending, has
\* been answered 409 while another user has completed a registration.
C33_Witness ==
  \E p \in Procs :
    LET pr == procs[p] IN
    /\ Answered(p) /\ pr.op = "BeginRegistration" /\ pr.resp.status = 409
    /\ \E u \in UsersByName(pr.req.username) :
         /\ ~ \E c \in credentials : c.user_id = u.id
         /\ \E ch \in ChallengesOfType("registration") : ch.user_id = u.id
    /\ credentials # {}

\* C34: no step of a BeginRegistration or of a BeginLogin changes the
\* credentials table; no step of a BeginLogin changes the users table, and
\* the one step of a BeginLogin that changes the challenges table is its
\* INSERT, which adds a single row and removes none.
C34_BeginWritesNoCredential ==
  [][\A p \in Procs :
       Stepped(p) =>
         /\ procs'[p].op \in {"BeginRegistration", "BeginLogin"}
              => credentials' = credentials
         /\ procs'[p].op = "BeginLogin"
              => /\ users' = users
                 /\ \/ challenges' = challenges
                    \/ /\ procs[p].pc = "bl_insert"
                       /\ challenges \subseteq challenges'
                       /\ Cardinality(challenges') = Cardinality(challenges) + 1]_vars

\* C34 witness: a BeginLogin has been answered with success; the row of its
\* challenge is the only login row stored and its user the only users row.
C34_Witness ==
  \E p \in Procs :
    LET pr == procs[p] IN
    /\ Succeeded(p) /\ pr.op = "BeginLogin"
    /\ ChallengesOfType("login") # {}
    /\ \A ch \in ChallengesOfType("login") :
         ch.challenge = RawBytes(pr.resp.challenge)
    /\ \A u \in users : u.id = pr.user.ID
    /\ credentials # {}

====
